---- MODULE Spec2Model ----
(***************************************************************************)
(* Model of the shift scheduler engine generateSchedule                    *)
(* (src/src/ShiftSchedulerApp.tsx): the strict fill pass, the optional     *)
(* hard-fill pass and the scheduling state they thread through the month.  *)
(*                                                                         *)
(* Employees are identified by their index in the roster (ids are unique   *)
(* opaque strings in the source; roster order decides ties).  A date       *)
(* string "YYYY-MM-DD" of the one month of a run is represented by its day *)
(* number after ymd's clamping; 0 stands for "no date recorded".           *)
(*                                                                         *)
(* The floating-point weights are kept up to a positive factor (the jitter *)
(* and the denominators), which is all the weighted draw's support depends *)
(* on; the draw itself is a choice over every outcome some value of rng()  *)
(* in [0,1) can produce.                                                   *)
(***************************************************************************)
EXTENDS Integers, Sequences, FiniteSets, TLC

VARIABLES params, assignedCount, lastNightOn, lastWorkedOn, streak,
          workedOnDay, weekCount, days, pc, day, shiftName, pool, picks,
          dayAlreadyPicked, available, underTargetExistsGlobally, dayRes,
          hfIdx, blankCalls, lastCommit, pushedOver,
          uiEmployees, settings, assignments, scheduleCode, seed, lastOp

vars == <<params, assignedCount, lastNightOn, lastWorkedOn, streak,
          workedOnDay, weekCount, days, pc, day, shiftName, pool, picks,
          dayAlreadyPicked, available, underTargetExistsGlobally, dayRes,
          hfIdx, blankCalls, lastCommit, pushedOver,
          uiEmployees, settings, assignments, scheduleCode, seed, lastOp>>

\* The state of the ShiftSchedulerApp component that the engine does not touch.
uiVars == <<uiEmployees, settings, assignments, scheduleCode, seed, lastOp>>

\* ---------------------------------------------------------------- bounds
\* Longest month explored (days).
MaxDays == 3
\* Largest desiredShifts of an employee.
MaxDesired == 2
\* Calls of fillSlot on one seat that fail all three stages, after which the
\* exploration of that run stops.
MaxBlankCalls == 2

\* Length of the month (days) in the runs that go past one rolling week.
LongMonth == 8

\* Generations the component is followed through.
MaxGenerations == 1

\* ------------------------------------------------------ program constants
\* Defaults of generateSchedule's parameters weeklyCap and maxStreak.
DefaultWeeklyCap == 5
DefaultMaxStreak == 5
\* Rolling window of the weekly cap: windowCount(id, dayNum, 7).
WeekWindow == 7
\* Days per week in dayToWeekIdx and weeksInMonth.
DaysPerWeek == 7

\* ---------------------------------------------------------------- utils
Max(a, b) == IF a >= b THEN a ELSE b
Min(a, b) == IF a <= b THEN a ELSE b

Range(s) == {s[i] : i \in 1..Len(s)}
Includes(s, x) == \E i \in 1..Len(s) : s[i] = x

\* Array.prototype.filter on a sequence of ids, keeping order.
RECURSIVE FilterSeq(_, _)
FilterSeq(s, keep) ==
  IF s = <<>> THEN <<>>
  ELSE IF Head(s) \in keep THEN <<Head(s)>> \o FilterSeq(Tail(s), keep)
       ELSE FilterSeq(Tail(s), keep)

\* ymd(y, m0, d): the date of day d of the run's month, d clamped to 1..dInM.
ymd(d) == Min(params.dInM, Max(1, d))

\* ---------------------------------------------------------------- roster
employees == params.employees
Ids == 1..Len(employees)
IdSeq == [i \in 1..Len(employees) |-> i]
primaries == FilterSeq(IdSeq, {i \in Ids : ~employees[i].isReserve})
reserves  == FilterSeq(IdSeq, {i \in Ids : employees[i].isReserve})

dInM == params.dInM
daySlotsNeeded   == Max(0, params.daySlots)
nightSlotsNeeded == Max(0, params.nightSlots)

desiredOf(e) == Max(0, employees[e].desiredShifts)

RECURSIVE SumDesired(_)
SumDesired(s) == IF s = <<>> THEN 0 ELSE desiredOf(Head(s)) + SumDesired(Tail(s))

totalDemand == dInM * (daySlotsNeeded + nightSlotsNeeded)
sumDesiredPrimaries == SumDesired(primaries)
\* Faulty variant: the desired sum of the primaries is not compared with demand.
allowReservesAlways == params.useReservesAuto

allowReservesInNormal == params.useReservesAuto /\ sumDesiredPrimaries >= totalDemand

weeksInMonth == (params.firstWeekday + dInM + DaysPerWeek - 1) \div DaysPerWeek
dayToWeekIdx(dayNum) == (params.firstWeekday + (dayNum - 1)) \div DaysPerWeek

\* ------------------------------------------------------- state tracker
\* Faulty variant: the window starts one day late.
windowCountShort(id, dayNum, window) ==
  Cardinality({d \in Max(1, dayNum - (window - 2))..(dayNum - 1) : d \in workedOnDay[id]})

\* Faulty variant: the window starts one day early.
windowCountWide(id, dayNum, window) ==
  Cardinality({d \in Max(1, dayNum - window)..(dayNum - 1) : d \in workedOnDay[id]})

\* windowCount(id, dayNum, window): days worked among dayNum-(window-1)..dayNum-1.
windowCount(id, dayNum, window) ==
  Cardinality({d \in Max(1, dayNum - (window - 1))..(dayNum - 1) : d \in workedOnDay[id]})

\* Faulty variant: any later day than the last worked date extends the streak.
streakOnAssignAnyGap(id, dayNum) ==
  IF lastWorkedOn[id] = 0 THEN 1
  ELSE IF dayNum - lastWorkedOn[id] >= 1 THEN streak[id] + 1 ELSE 1

\* The streak updateOnAssign stores: 1 on the first commit; previous + 1 when
\* the committed day is one day after the last worked date; 1 otherwise.
streakOnAssign(id, dayNum) ==
  IF lastWorkedOn[id] = 0 THEN 1
  ELSE IF dayNum - lastWorkedOn[id] = 1 THEN streak[id] + 1 ELSE 1

lastNightOnAssign(id, date, shift) ==
  IF shift = "night" THEN date ELSE lastNightOn[id]

\* Faulty variant: the commit leaves the assigned count as it was.
assignedOnAssignSame(id) == assignedCount[id]

\* assignedCount[id]++.
assignedOnAssign(id) == assignedCount[id] + 1

\* updateOnAssign(id, date, dayNum, shiftName): the commit of one assignment.
updateOnAssign(id, date, dayNum, shift) ==
  /\ streak' = [streak EXCEPT ![id] = streakOnAssign(id, dayNum)]
  /\ lastWorkedOn' = [lastWorkedOn EXCEPT ![id] = date]
  /\ workedOnDay' = [workedOnDay EXCEPT ![id] = @ \cup {dayNum}]
  /\ lastNightOn' = [lastNightOn EXCEPT ![id] = lastNightOnAssign(id, date, shift)]
  /\ assignedCount' = [assignedCount EXCEPT ![id] = assignedOnAssign(id)]
  /\ weekCount' = [weekCount EXCEPT ![id][dayToWeekIdx(dayNum)] = @ + 1]

\* ------------------------------------------------------------- weights
\* prefWeight times 10.
prefWeight(e, shift) ==
  IF employees[e].preference = "Neither" THEN 8
  ELSE IF shift = "day" THEN (IF employees[e].preference = "Day" THEN 10 ELSE 0)
  ELSE (IF employees[e].preference = "Night" THEN 10 ELSE 0)

workedYday(id, dayNum) == (dayNum - 1) \in workedOnDay[id]

\* restBias times 10.
restBias(e, dayNum) == IF workedYday(e, dayNum) THEN 5 ELSE 10

\* Faulty variant: the count is compared with the unrounded per-week target.
spreadBiasUnrounded(e, dayNum) ==
  IF ~params.spreadEnabled THEN 10
  ELSE IF desiredOf(e) = 0 THEN 10
  ELSE LET wk == Max(1, weeksInMonth)
           current == weekCount[e][dayToWeekIdx(dayNum)]
       IN IF current * wk < desiredOf(e) THEN 12
          ELSE IF current * wk > desiredOf(e) THEN 7
          ELSE 10

\* spreadBias times 10.  targetPerWeek = desired / max(1, weeksInMonth);
\* floor and ceil of it are taken on the exact quotient.
spreadBias(e, dayNum) ==
  IF ~params.spreadEnabled THEN 10
  ELSE IF desiredOf(e) = 0 THEN 10
  ELSE LET wk == Max(1, weeksInMonth)
           fl == desiredOf(e) \div wk
           ce == (desiredOf(e) + wk - 1) \div wk
           current == weekCount[e][dayToWeekIdx(dayNum)]
       IN IF current < fl THEN 12
          ELSE IF current > ce THEN 7
          ELSE 10

\* consecutiveBias times 10.
consecutiveBias(e) ==
  LET currentStreak == streak[e]
      remaining == Max(0, desiredOf(e) - assignedCount[e])
  IN IF currentStreak = 0 THEN 12
     ELSE IF currentStreak >= 1 /\ currentStreak < params.maxStreak THEN 11
     ELSE IF currentStreak >= params.maxStreak THEN 0
     ELSE IF remaining <= 2 /\ currentStreak >= 1 THEN 13
     ELSE 10

\* desiredBias times 20 * max(4, desired):
\* 1.6 + min(1.2, remain / max(2, desired * 0.5)) when under target,
\* 0.9 when desired is 0, 0.5 at target, 0.25 over target.
desiredBias(e) ==
  LET desired == desiredOf(e)
      cnt == assignedCount[e]
      m == Max(4, desired)
      remain == Max(0, desired - cnt)
  IN IF desired = 0 THEN 18 * m
     ELSE IF remain > 0 THEN 32 * m + Min(24 * m, 40 * remain)
     ELSE IF cnt = desired THEN 10 * m ELSE 5 * m

\* ---------------------------------------------------------- eligibility
NoRelax == [ignoreWeeklyCap |-> FALSE, ignoreStreak |-> FALSE]

\* Faulty variant: the picks of the day are not looked at.
alreadyPickedTodaySkipped(cand, already) == FALSE

\* The five checks of eligibilityReasons, in source order.
alreadyPickedToday(cand, already) == Includes(already, cand)

streakBlocked(cand, relax) ==
  ~relax.ignoreStreak /\ streak[cand] >= params.maxStreak

\* Faulty variant: the last night date is compared with today's date.
morningAfterNightSameDay(cand, shift, dayNum) ==
  /\ shift = "day"
  /\ params.enforceNoMorningAfterNight
  /\ lastNightOn[cand] = ymd(dayNum)

morningAfterNight(cand, shift, dayNum) ==
  /\ shift = "day"
  /\ params.enforceNoMorningAfterNight
  /\ lastNightOn[cand] = ymd(dayNum - 1)

weeklyCapReached(cand, dayNum, relax) ==
  ~relax.ignoreWeeklyCap /\ windowCount(cand, dayNum, WeekWindow) >= params.weeklyCap

consecutiveLimitReached(cand) == streak[cand] >= params.maxStreak

\* eligibilityReasons(cand, shift, dayNum, dayAlreadyPicked, relax): the set
\* of violated constraints.
eligibilityReasons(cand, shift, dayNum, already, relax) ==
     (IF alreadyPickedToday(cand, already)
      THEN {"already on other shift today"} ELSE {})
  \cup (IF streakBlocked(cand, relax) THEN {"streak"} ELSE {})
  \cup (IF morningAfterNight(cand, shift, dayNum)
        THEN {"morning after night"} ELSE {})
  \cup (IF weeklyCapReached(cand, dayNum, relax) THEN {"weekly cap"} ELSE {})
  \cup (IF consecutiveLimitReached(cand)
        THEN {"consecutive limit reached"} ELSE {})

eligible(cand, shift, dayNum, already, relax) ==
  eligibilityReasons(cand, shift, dayNum, already, relax) = {}

\* weightFor up to a positive factor (fairness 1 / (1 + assignedCount) and the
\* jitter 0.95 + rng() * 0.1 are positive): 0 exactly when the source's weight is 0.
weightFor(e, shift, dayNum, underTarget) ==
  IF underTarget /\ assignedCount[e] >= desiredOf(e) THEN 0
  ELSE Max(0, prefWeight(e, shift) * desiredBias(e) * restBias(e, dayNum)
              * spreadBias(e, dayNum) * consecutiveBias(e))

\* randomPickWeighted(items, weights, rng): the items some draw r = rng() * total
\* returns; {} when total <= 0 (undefined).  r = 0 returns items[0] whatever its
\* weight; r > 0 returns the first item whose cumulated weight reaches r.
randomPickWeighted(items, weights) ==
  IF \A i \in 1..Len(items) : weights[i] <= 0 THEN {}
  ELSE {items[1]} \cup {items[i] : i \in {j \in 1..Len(items) : weights[j] > 0}}

\* ---------------------------------------------------------- strict pass
needed == IF shiftName = "day" THEN daySlotsNeeded ELSE nightSlotsNeeded

allAllowed == IF allowReservesInNormal THEN primaries \o reserves ELSE primaries

\* Faulty variant: the comparison with the desired count is turned around.
underTargetExistsFlipped(shift, dayNum, already) ==
  \E e \in Range(allAllowed) :
     assignedCount[e] > desiredOf(e) /\ eligible(e, shift, dayNum, already, NoRelax)

\* tryPool's entry: is any under-target, eligible candidate in the allowed pools?
underTargetExists(shift, dayNum, already) ==
  \E e \in Range(allAllowed) :
     assignedCount[e] < desiredOf(e) /\ eligible(e, shift, dayNum, already, NoRelax)

\* tryPool's entry: the pool filtered to the eligible candidates.
availableOf(poolSeq, shift, dayNum, already) ==
  FilterSeq(poolSeq, {e \in Ids : eligible(e, shift, dayNum, already, NoRelax)})

weightsOf(items) ==
  [i \in 1..Len(items) |->
     weightFor(items[i], shiftName, day, underTargetExistsGlobally)]

drawn == randomPickWeighted(available, weightsOf(available))

\* The while loop of tryPool runs another iteration.
loopRuns == Len(picks) < needed /\ available # <<>> /\ drawn # {}

\* Faulty variant: the recheck after the draw is missing.
ceilingSkipsNever(picked) == FALSE

\* The recheck after the draw: an at-or-over-target pick while an under-target
\* candidate exists is discarded.
ceilingSkips(picked) ==
  underTargetExistsGlobally /\ assignedCount[picked] >= desiredOf(picked)

NoCommit == [id |-> 0, pass |-> "none", dayNum |-> 0, shift |-> "none",
             atTarget |-> FALSE, underEligible |-> {},
             first |-> FALSE, prevDay |-> 0, prevStreak |-> 0, stage |-> 0,
             rivals |-> 0]

\* The allowed-pool employees under their desired count and eligible for the
\* shift, as observed when a commit is made.
underEligibleNow(shift, dayNum, already) ==
  {u \in Range(allAllowed) :
     assignedCount[u] < desiredOf(u) /\ eligible(u, shift, dayNum, already, NoRelax)}

TryPoolDiscard ==
  /\ pc = "strict" /\ loopRuns
  /\ \E picked \in drawn :
       /\ ceilingSkips(picked)
       /\ available' = FilterSeq(available, Ids \ {picked})
  /\ lastCommit' = NoCommit
  /\ UNCHANGED uiVars
  /\ UNCHANGED <<params, assignedCount, lastNightOn, lastWorkedOn, streak,
                 workedOnDay, weekCount, days, pc, day, shiftName, pool, picks,
                 dayAlreadyPicked, underTargetExistsGlobally, dayRes, hfIdx,
                 blankCalls, pushedOver>>

TryPoolCommit ==
  /\ pc = "strict" /\ loopRuns
  /\ \E picked \in drawn :
       /\ ~ceilingSkips(picked)
       /\ picks' = Append(picks, picked)
       /\ updateOnAssign(picked, ymd(day), day, shiftName)
       /\ dayAlreadyPicked' = Append(dayAlreadyPicked, picked)
       /\ available' = FilterSeq(available, Ids \ {picked})
       /\ lastCommit' = [id |-> picked, pass |-> "strict", dayNum |-> day,
                         shift |-> shiftName,
                         atTarget |-> assignedCount[picked] >= desiredOf(picked),
                         underEligible |->
                           underEligibleNow(shiftName, day, dayAlreadyPicked),
                         first |-> assignedCount[picked] = 0,
                         prevDay |-> lastWorkedOn[picked],
                         prevStreak |-> streak[picked],
                         stage |-> 0, rivals |-> 0]
       /\ pushedOver' =
            IF assignedCount[picked] >= desiredOf(picked)
            THEN pushedOver \cup
                 {<<picked, u>> :
                    u \in underEligibleNow(shiftName, day, dayAlreadyPicked)}
            ELSE pushedOver
  /\ UNCHANGED uiVars
  /\ UNCHANGED <<params, days, pc, day, shiftName, pool,
                 underTargetExistsGlobally, dayRes, hfIdx, blankCalls>>

\* pickShift's second call of tryPool, on the reserve pool.
TryReserves ==
  /\ pc = "strict" /\ ~loopRuns
  /\ pool = "primary" /\ allowReservesInNormal /\ Len(picks) < needed
  /\ pool' = "reserve"
  /\ underTargetExistsGlobally' = underTargetExists(shiftName, day, dayAlreadyPicked)
  /\ available' = availableOf(reserves, shiftName, day, dayAlreadyPicked)
  /\ lastCommit' = NoCommit
  /\ UNCHANGED uiVars
  /\ UNCHANGED <<params, assignedCount, lastNightOn, lastWorkedOn, streak,
                 workedOnDay, weekCount, days, pc, day, shiftName, picks,
                 dayAlreadyPicked, dayRes, hfIdx, blankCalls, pushedOver>>

\* Diagnostics of pickShift: reason -> number of candidates, as pairs.
reasonsOf(cand, shift, dayNum, already) ==
  eligibilityReasons(cand, shift, dayNum, already, NoRelax)
  \cup (IF underTargetExists(shift, dayNum, already)
           /\ assignedCount[cand] >= desiredOf(cand)
        THEN {"hard ceiling (others under target)"} ELSE {})

AllReasons == {"already on other shift today", "streak", "morning after night",
               "weekly cap", "consecutive limit reached",
               "hard ceiling (others under target)"}

reasonCounts(shift, dayNum, already) ==
  {<<r, Cardinality({c \in Range(allAllowed) :
                        r \in reasonsOf(c, shift, dayNum, already)})>> :
     r \in {q \in AllReasons :
              \E c \in Range(allAllowed) : q \in reasonsOf(c, shift, dayNum, already)}}

issuesOf(shift, dayNum, already, nPicked, need) ==
  IF nPicked < need /\ reasonCounts(shift, dayNum, already) # {}
  THEN <<reasonCounts(shift, dayNum, already)>> ELSE <<>>

\* What pickShift returns.
shiftResult ==
  [picks |-> picks, missing |-> Max(0, needed - Len(picks)),
   issues |-> issuesOf(shiftName, day, dayAlreadyPicked, Len(picks), needed)]

shiftDone ==
  /\ pc = "strict" /\ ~loopRuns
  /\ ~(pool = "primary" /\ allowReservesInNormal /\ Len(picks) < needed)

\* The day shift is settled; pickShift is called for the night shift with the
\* day's picks as already picked.
EndDayShift ==
  /\ shiftDone /\ shiftName = "day"
  /\ dayRes' = shiftResult
  /\ shiftName' = "night"
  /\ pool' = "primary"
  /\ picks' = <<>>
  /\ dayAlreadyPicked' = picks
  /\ underTargetExistsGlobally' = underTargetExists("night", day, picks)
  /\ available' = availableOf(primaries, "night", day, picks)
  /\ lastCommit' = NoCommit
  /\ UNCHANGED uiVars
  /\ UNCHANGED <<params, assignedCount, lastNightOn, lastWorkedOn, streak,
                 workedOnDay, weekCount, days, pc, day, hfIdx, blankCalls, pushedOver>>

\* Faulty variant: the day loop stops one day early.
dayLoopRunsShort(d) == d < dInM

\* The condition of the day loop: for (day = 1; day <= dInM; day++).
dayLoopRuns(d) == d <= dInM

newRow ==
  [date |-> ymd(day), dayIds |-> dayRes.picks, nightIds |-> shiftResult.picks,
   dayMissing |-> dayRes.missing, nightMissing |-> shiftResult.missing,
   dayIssues |-> dayRes.issues, nightIssues |-> shiftResult.issues]

NoRes == [picks |-> <<>>, missing |-> 0, issues |-> <<>>]

\* The night shift is settled: the row is pushed and the day loop moves on,
\* to the next day, to the hard-fill pass or to the return.
EndNightShift ==
  /\ shiftDone /\ shiftName = "night"
  /\ days' = Append(days, newRow)
  /\ dayRes' = NoRes
  /\ picks' = <<>>
  /\ dayAlreadyPicked' = <<>>
  /\ pool' = "primary"
  /\ shiftName' = "day"
  /\ day' = day + 1
  /\ IF dayLoopRuns(day + 1)
     THEN /\ pc' = "strict"
          /\ underTargetExistsGlobally' = underTargetExists("day", day + 1, <<>>)
          /\ available' = availableOf(primaries, "day", day + 1, <<>>)
     ELSE /\ pc' = IF params.hardFill THEN "hardfill" ELSE "done"
          /\ underTargetExistsGlobally' = FALSE
          /\ available' = <<>>
  /\ lastCommit' = NoCommit
  /\ UNCHANGED uiVars
  /\ UNCHANGED <<params, assignedCount, lastNightOn, lastWorkedOn, streak,
                 workedOnDay, weekCount, hfIdx, blankCalls, pushedOver>>


\* ------------------------------------------------------- hard-fill pass
relaxStages == << [ignoreWeeklyCap |-> FALSE, ignoreStreak |-> FALSE],
                  [ignoreWeeklyCap |-> TRUE,  ignoreStreak |-> FALSE],
                  [ignoreWeeklyCap |-> TRUE,  ignoreStreak |-> TRUE] >>

\* The shift fillSlot is called for on row idx: day seats first, then night.
hfShift(row) == IF row.dayMissing > 0 THEN "day" ELSE "night"
alreadyOf(row, shift) == IF shift = "day" THEN row.dayIds ELSE row.nightIds
otherOf(row, shift)   == IF shift = "day" THEN row.nightIds ELSE row.dayIds

\* pickStage's candidate list: the under-target members of primaries ++ reserves
\* (all members when nobody is under target), not on the row, eligible under relax.
stageOrder(row, dayNum, shift, relax) ==
  LET pools == primaries \o reserves
      under == FilterSeq(pools, {e \in Ids : assignedCount[e] < desiredOf(e)})
      base  == IF under # <<>> THEN under ELSE pools
  IN FilterSeq(base,
       {e \in Ids :
          /\ ~Includes(alreadyOf(row, shift), e)
          /\ ~Includes(otherOf(row, shift), e)
          /\ eligible(e, shift, dayNum,
                      alreadyOf(row, shift) \o otherOf(row, shift), relax)})

\* Faulty variant: the comparator puts the smaller remaining desired first.
sortsBeforeLeastNeedy(a, b) ==
  LET ra == desiredOf(a) - assignedCount[a]
      rb == desiredOf(b) - assignedCount[b]
  IN IF rb # ra THEN ra < rb ELSE assignedCount[a] < assignedCount[b]

\* The sort's comparator: larger remaining desired first, then fewer assigned.
sortsBefore(a, b) ==
  LET ra == desiredOf(a) - assignedCount[a]
      rb == desiredOf(b) - assignedCount[b]
  IN IF rb # ra THEN ra > rb ELSE assignedCount[a] < assignedCount[b]

\* order[0] after the stable sort.
stageChosen(order) ==
  LET best == CHOOSE i \in 1..Len(order) :
                \A j \in 1..Len(order) :
                   j # i => \/ sortsBefore(order[i], order[j])
                            \/ (~sortsBefore(order[j], order[i]) /\ i < j)
  IN order[best]

\* The first stage of fillSlot that yields a candidate; 0 when all three fail.
stageUsed(row, dayNum, shift) ==
  IF stageOrder(row, dayNum, shift, relaxStages[1]) # <<>> THEN 1
  ELSE IF stageOrder(row, dayNum, shift, relaxStages[2]) # <<>> THEN 2
  ELSE IF stageOrder(row, dayNum, shift, relaxStages[3]) # <<>> THEN 3
  ELSE 0

\* Faulty variant: the missing count is not reconciled after the append.
rowAfterFillStale(row, shift, chosen) ==
  IF shift = "day"
  THEN [row EXCEPT !.dayIds = Append(@, chosen)]
  ELSE [row EXCEPT !.nightIds = Append(@, chosen)]

\* The row after fillSlot appended chosen and reconciled the missing count.
rowAfterFill(row, shift, chosen) ==
  IF shift = "day"
  THEN [row EXCEPT !.dayIds = Append(@, chosen),
                   !.dayMissing = Max(0, params.daySlots - (Len(row.dayIds) + 1))]
  ELSE [row EXCEPT !.nightIds = Append(@, chosen),
                   !.nightMissing = Max(0, params.nightSlots - (Len(row.nightIds) + 1))]

hfOpen ==
  /\ pc = "hardfill" /\ hfIdx <= Len(days)
  /\ (days[hfIdx].dayMissing > 0 \/ days[hfIdx].nightMissing > 0)

\* fillSlot(idx, shift) when some stage yields a candidate.
FillSlotCommit ==
  /\ hfOpen
  /\ LET row == days[hfIdx]
         shift == hfShift(row)
         stage == stageUsed(row, hfIdx, shift)
     IN /\ stage # 0
        /\ LET chosen == stageChosen(stageOrder(row, hfIdx, shift, relaxStages[stage]))
           IN /\ updateOnAssign(chosen, row.date, hfIdx, shift)
              /\ days' = [days EXCEPT ![hfIdx] = rowAfterFill(row, shift, chosen)]
              /\ lastCommit' = [id |-> chosen, pass |-> "hardfill", dayNum |-> hfIdx,
                                shift |-> shift,
                                atTarget |-> assignedCount[chosen] >= desiredOf(chosen),
                                underEligible |-> {},
                                first |-> assignedCount[chosen] = 0,
                                prevDay |-> lastWorkedOn[chosen],
                                prevStreak |-> streak[chosen],
                                stage |-> stage,
                                rivals |-> Len(stageOrder(row, hfIdx, shift,
                                                          relaxStages[stage]))]
  /\ blankCalls' = 0
  /\ UNCHANGED uiVars
  /\ UNCHANGED <<params, pc, day, shiftName, pool, picks, dayAlreadyPicked,
                 available, underTargetExistsGlobally, dayRes, hfIdx, pushedOver>>

\* fillSlot(idx, shift) when all three stages fail: nothing is assigned, the
\* missing count is reconciled to the same value, and the while loop of the
\* row calls fillSlot again.  blankCalls counts these calls for the seat.
FillSlotBlank ==
  /\ hfOpen
  /\ stageUsed(days[hfIdx], hfIdx, hfShift(days[hfIdx])) = 0
  /\ blankCalls < MaxBlankCalls
  /\ blankCalls' = blankCalls + 1
  /\ lastCommit' = NoCommit
  /\ UNCHANGED uiVars
  /\ UNCHANGED <<params, assignedCount, lastNightOn, lastWorkedOn, streak,
                 workedOnDay, weekCount, days, pc, day, shiftName, pool, picks,
                 dayAlreadyPicked, available, underTargetExistsGlobally, dayRes,
                 hfIdx, pushedOver>>

\* Both while loops of a row have ended: days.forEach moves to the next row.
NextRow ==
  /\ pc = "hardfill" /\ hfIdx <= Len(days)
  /\ days[hfIdx].dayMissing <= 0 /\ days[hfIdx].nightMissing <= 0
  /\ hfIdx' = hfIdx + 1
  /\ lastCommit' = NoCommit
  /\ UNCHANGED uiVars
  /\ UNCHANGED <<params, assignedCount, lastNightOn, lastWorkedOn, streak,
                 workedOnDay, weekCount, days, pc, day, shiftName, pool, picks,
                 dayAlreadyPicked, available, underTargetExistsGlobally, dayRes,
                 blankCalls, pushedOver>>

\* days.forEach has visited every row: generateSchedule returns.
Return ==
  /\ pc = "hardfill" /\ hfIdx > Len(days)
  /\ pc' = "done"
  /\ lastCommit' = NoCommit
  /\ UNCHANGED uiVars
  /\ UNCHANGED <<params, assignedCount, lastNightOn, lastWorkedOn, streak,
                 workedOnDay, weekCount, days, day, shiftName, pool, picks,
                 dayAlreadyPicked, available, underTargetExistsGlobally, dayRes,
                 hfIdx, blankCalls, pushedOver>>

\* ------------------------------------------------------------- inputs
Prefs == {"Day", "Night", "Neither"}

Primary == [preference : Prefs, desiredShifts : 0..MaxDesired, isReserve : {FALSE}]
Employee == [preference : Prefs, desiredShifts : 0..MaxDesired, isReserve : BOOLEAN]
Flexible == [preference : {"Neither"}, desiredShifts : {0, MaxDesired},
             isReserve : {FALSE}]
FlexibleFine == [preference : {"Neither"}, desiredShifts : 0..MaxDesired,
                 isReserve : {FALSE}]
FlexibleAny == [preference : {"Neither"}, desiredShifts : {0, MaxDesired},
                isReserve : BOOLEAN]

\* Two employees of any preference, one seat per shift, every combination of
\* the three switches, short streak limit.
PairParams ==
  [employees : {<<a, b>> : a \in Primary, b \in Employee},
   dInM : 1..MaxDays,
   firstWeekday : {3},
   daySlots : {1},
   nightSlots : {1},
   enforceNoMorningAfterNight : BOOLEAN,
   weeklyCap : {DefaultWeeklyCap},
   maxStreak : {2},
   spreadEnabled : {TRUE},
   useReservesAuto : BOOLEAN,
   hardFill : BOOLEAN]

\* Three employees without preference, two day seats or no night seat, a
\* month that crosses a week boundary, tight weekly cap.
TrioParams ==
  [employees : {<<a, b, c>> : a \in Flexible, b \in Flexible, c \in FlexibleAny},
   dInM : {MaxDays},
   firstWeekday : {5},
   daySlots : {1, 2},
   nightSlots : {0, 1},
   enforceNoMorningAfterNight : {TRUE},
   weeklyCap : {2},
   maxStreak : {DefaultMaxStreak},
   spreadEnabled : BOOLEAN,
   useReservesAuto : {TRUE},
   hardFill : BOOLEAN]

\* Two employees without preference, one day seat and no night seat, a month
\* longer than the rolling week, weekly cap of one or two days.
WeekParams ==
  [employees : {<<a, b>> : a \in FlexibleFine, b \in Flexible},
   dInM : {LongMonth},
   firstWeekday : {0},
   daySlots : {1},
   nightSlots : {0},
   enforceNoMorningAfterNight : {TRUE},
   weeklyCap : {1, 2},
   maxStreak : {DefaultMaxStreak},
   spreadEnabled : {TRUE},
   useReservesAuto : {FALSE},
   hardFill : BOOLEAN]

Params == PairParams \cup TrioParams \cup WeekParams

\* The state at the top of the day loop, day 1, first call of pickShift.
StartOfRun ==
  /\ assignedCount = [e \in Ids |-> 0]
  /\ lastNightOn = [e \in Ids |-> 0]
  /\ lastWorkedOn = [e \in Ids |-> 0]
  /\ streak = [e \in Ids |-> 0]
  /\ workedOnDay = [e \in Ids |-> {}]
  /\ weekCount = [e \in Ids |-> [w \in 0..(weeksInMonth - 1) |-> 0]]
  /\ days = <<>>
  /\ day = 1
  /\ shiftName = "day"
  /\ pool = "primary"
  /\ picks = <<>>
  /\ dayAlreadyPicked = <<>>
  /\ underTargetExistsGlobally = underTargetExists("day", 1, <<>>)
  /\ available = availableOf(primaries, "day", 1, <<>>)
  /\ dayRes = NoRes
  /\ hfIdx = 1
  /\ blankCalls = 0
  /\ lastCommit = NoCommit
  /\ pushedOver = {}

NoOp == [kind |-> "none", date |-> 0, shift |-> "none", id |-> 0]

\* generateSchedule called on its own, as the self tests do: the component's
\* state is the one of useState's initial values and stays there.
Init ==
  /\ params \in Params
  /\ pc = "strict"
  /\ StartOfRun
  /\ uiEmployees = <<>>
  /\ settings = params
  /\ assignments = <<>>
  /\ scheduleCode = 0
  /\ seed = 0
  /\ lastOp = NoOp

Next ==
  \/ TryPoolDiscard
  \/ TryPoolCommit
  \/ TryReserves
  \/ EndDayShift
  \/ EndNightShift
  \/ FillSlotCommit
  \/ FillSlotBlank
  \/ NextRow
  \/ Return

Spec == Init /\ [][Next]_vars

\* ------------------------------------- the component: generation request
\* A name is a sequence of characters; String.prototype.trim drops the white
\* space at both ends.
RECURSIVE trimStart(_)
trimStart(name) ==
  IF name # <<>> /\ Head(name) = " " THEN trimStart(Tail(name)) ELSE name

RECURSIVE trimEnd(_)
trimEnd(name) ==
  IF name # <<>> /\ name[Len(name)] = " "
  THEN trimEnd(SubSeq(name, 1, Len(name) - 1)) ELSE name

trim(name) == trimEnd(trimStart(name))

uiIdx == [i \in 1..Len(uiEmployees) |-> i]

\* Faulty variant: the roster is passed on as it is.
filteredAll == uiIdx

\* employees.filter((e) => e.name.trim().length > 0), as roster positions.
filtered ==
  FilterSeq(uiIdx, {i \in 1..Len(uiEmployees) : Len(trim(uiEmployees[i].name)) > 0})

\* What the engine reads of an employee record.
toEngine(e) ==
  [preference |-> e.preference, desiredShifts |-> e.desiredShifts,
   isReserve |-> e.isReserve]

\* The argument of generateSchedule built by doGenerate.
request ==
  [employees |-> [k \in 1..Len(filtered) |-> toEngine(uiEmployees[filtered[k]])],
   dInM |-> settings.dInM,
   firstWeekday |-> settings.firstWeekday,
   daySlots |-> settings.daySlots,
   nightSlots |-> settings.nightSlots,
   enforceNoMorningAfterNight |-> settings.enforceNoMorningAfterNight,
   weeklyCap |-> settings.weeklyCap,
   maxStreak |-> settings.maxStreak,
   spreadEnabled |-> settings.spreadEnabled,
   useReservesAuto |-> settings.useReservesAuto,
   hardFill |-> settings.hardFill]

engineVars == <<params, assignedCount, lastNightOn, lastWorkedOn, streak,
                workedOnDay, weekCount, days, pc, day, shiftName, pool, picks,
                dayAlreadyPicked, available, underTargetExistsGlobally, dayRes,
                hfIdx, blankCalls, lastCommit, pushedOver>>

GenerateOp == [kind |-> "doGenerate", date |-> 0, shift |-> "none", id |-> 0]

\* doGenerate up to the call of generateSchedule: with no named employee it
\* alerts and returns; otherwise the engine starts on the named employees.
DoGenerate ==
  /\ pc = "idle"
  /\ lastOp' = GenerateOp
  /\ IF filtered = <<>>
     THEN UNCHANGED engineVars
     ELSE /\ scheduleCode < MaxGenerations
          /\ params' = request
          /\ pc' = "strict"
          /\ assignedCount' = [e \in Ids' |-> 0]
          /\ lastNightOn' = [e \in Ids' |-> 0]
          /\ lastWorkedOn' = [e \in Ids' |-> 0]
          /\ streak' = [e \in Ids' |-> 0]
          /\ workedOnDay' = [e \in Ids' |-> {}]
          /\ weekCount' = [e \in Ids' |-> [w \in 0..(weeksInMonth' - 1) |-> 0]]
          /\ days' = <<>>
          /\ day' = 1
          /\ shiftName' = "day"
          /\ pool' = "primary"
          /\ picks' = <<>>
          /\ dayAlreadyPicked' = <<>>
          /\ underTargetExistsGlobally' = underTargetExists("day", 1, <<>>)'
          /\ available' = availableOf(primaries, "day", 1, <<>>)'
          /\ dayRes' = NoRes
          /\ hfIdx' = 1
          /\ blankCalls' = 0
          /\ lastCommit' = NoCommit
          /\ pushedOver' = {}
  /\ UNCHANGED <<uiEmployees, settings, assignments, scheduleCode, seed>>

\* A row of the engine's table with the ids of the component's roster.
uiRow(row) ==
  [row EXCEPT !.dayIds = [k \in 1..Len(row.dayIds) |-> filtered[row.dayIds[k]]],
              !.nightIds = [k \in 1..Len(row.nightIds) |-> filtered[row.nightIds[k]]]]

\* doGenerate after generateSchedule returned: setAssignments(res), setSeed with
\* the seed used unless it was a random one, setScheduleCode with a new code.
DoGenerateEnd ==
  /\ pc = "done" /\ lastOp = GenerateOp
  /\ assignments' = [d \in 1..Len(days) |-> uiRow(days[d])]
  /\ LET seedToUse == seed
     IN seed' = (IF ~settings.randomizeSeedEachTime THEN seedToUse ELSE seed)
  /\ scheduleCode' = scheduleCode + 1
  /\ pc' = "idle"
  /\ UNCHANGED <<params, assignedCount, lastNightOn, lastWorkedOn, streak,
                 workedOnDay, weekCount, days, day, shiftName, pool, picks,
                 dayAlreadyPicked, available, underTargetExistsGlobally, dayRes,
                 hfIdx, blankCalls, lastCommit, pushedOver>>
  /\ UNCHANGED <<uiEmployees, settings, lastOp>>

\* ---------------------------------------- the component: manual overrides
\* Faulty variant: the other shift of the date is not looked at.
assignManualUnchecked(tbl, date, shift, employeeId) ==
  [d \in 1..Len(tbl) |->
     IF tbl[d].date # date THEN tbl[d]
     ELSE IF shift = "day"
          THEN [tbl[d] EXCEPT !.dayIds = Append(@, employeeId),
                              !.dayMissing = Max(0, @ - 1)]
          ELSE [tbl[d] EXCEPT !.nightIds = Append(@, employeeId),
                              !.nightMissing = Max(0, @ - 1)]]

\* assignManual(date, shiftName, employeeId): the table it sets.
assignManual(tbl, date, shift, employeeId) ==
  [d \in 1..Len(tbl) |->
     IF tbl[d].date # date THEN tbl[d]
     ELSE IF Includes(otherOf(tbl[d], shift), employeeId) THEN tbl[d]
     ELSE IF shift = "day"
          THEN [tbl[d] EXCEPT !.dayIds = Append(@, employeeId),
                              !.dayMissing = Max(0, @ - 1)]
          ELSE [tbl[d] EXCEPT !.nightIds = Append(@, employeeId),
                              !.nightMissing = Max(0, @ - 1)]]

\* removeFromShift(date, shiftName, employeeId): the table it sets.
removeFromShift(tbl, date, shift, employeeId) ==
  [d \in 1..Len(tbl) |->
     IF tbl[d].date # date THEN tbl[d]
     ELSE IF shift = "day"
          THEN [tbl[d] EXCEPT
                  !.dayIds = FilterSeq(@, Range(@) \ {employeeId}),
                  !.dayMissing = Max(0, @ + 1)]
          ELSE [tbl[d] EXCEPT
                  !.nightIds = FilterSeq(@, Range(@) \ {employeeId}),
                  !.nightMissing = Max(0, @ + 1)]]

hasRow(date) == \E d \in 1..Len(assignments) : assignments[d].date = date

\* The calendar cell of a date: its row of the table, or an empty cell with
\* every seat missing.
cellOf(date) ==
  IF hasRow(date)
  THEN assignments[CHOOSE d \in 1..Len(assignments) :
                     /\ assignments[d].date = date
                     /\ \A c \in 1..(d - 1) : assignments[c].date # date]
  ELSE [date |-> date, dayIds |-> <<>>, nightIds |-> <<>>,
        dayMissing |-> settings.daySlots, nightMissing |-> settings.nightSlots,
        dayIssues |-> <<>>, nightIssues |-> <<>>]

missingOf(cell, shift) == IF shift = "day" THEN cell.dayMissing ELSE cell.nightMissing

\* AssignMenu's list: the named employees on neither list of the date.
availableEmployees(date, shift) ==
  {i \in 1..Len(uiEmployees) :
     /\ Len(trim(uiEmployees[i].name)) > 0
     /\ hasRow(date) => /\ ~Includes(alreadyOf(cellOf(date), shift), i)
                        /\ ~Includes(otherOf(cellOf(date), shift), i)}

uiReserves == FilterSeq(uiIdx, {i \in 1..Len(uiEmployees) : uiEmployees[i].isReserve})

Shifts == {"day", "night"}

\* A missing seat's AssignMenu: one of the listed employees is assigned.
AssignFromMenu ==
  /\ pc = "idle"
  /\ \E date \in 1..settings.dInM, shift \in Shifts :
       /\ missingOf(cellOf(date), shift) > 0
       /\ \E e \in availableEmployees(date, shift) :
            /\ assignments' = assignManual(assignments, date, shift, e)
            /\ lastOp' = [kind |-> "assignManual", date |-> date,
                          shift |-> shift, id |-> e]
  /\ UNCHANGED engineVars
  /\ UNCHANGED <<uiEmployees, settings, scheduleCode, seed>>

\* A missing seat's Fill button: autoFillWithReserve(date, shiftName) assigns
\* the first reserve of the roster, if there is one.
AutoFillWithReserve ==
  /\ pc = "idle"
  /\ \E date \in 1..settings.dInM, shift \in Shifts :
       /\ missingOf(cellOf(date), shift) > 0
       /\ IF uiReserves = <<>>
          THEN /\ UNCHANGED assignments
               /\ lastOp' = [kind |-> "autoFillWithReserve", date |-> date,
                             shift |-> shift, id |-> 0]
          ELSE /\ assignments' = assignManual(assignments, date, shift, uiReserves[1])
               /\ lastOp' = [kind |-> "autoFillWithReserve", date |-> date,
                             shift |-> shift, id |-> uiReserves[1]]
  /\ UNCHANGED engineVars
  /\ UNCHANGED <<uiEmployees, settings, scheduleCode, seed>>

\* The remove button next to a listed employee.
RemoveFromShift ==
  /\ pc = "idle"
  /\ \E date \in 1..settings.dInM, shift \in Shifts :
       \E id \in Range(alreadyOf(cellOf(date), shift)) :
          /\ assignments' = removeFromShift(assignments, date, shift, id)
          /\ lastOp' = [kind |-> "removeFromShift", date |-> date,
                        shift |-> shift, id |-> id]
  /\ UNCHANGED engineVars
  /\ UNCHANGED <<uiEmployees, settings, scheduleCode, seed>>

\* The name field of a roster line is emptied.
EditName ==
  /\ pc = "idle"
  /\ \E i \in 1..Len(uiEmployees) :
       uiEmployees' = [uiEmployees EXCEPT ![i].name = <<>>]
  /\ lastOp' = [kind |-> "editName", date |-> 0, shift |-> "none", id |-> 0]
  /\ UNCHANGED engineVars
  /\ UNCHANGED <<settings, assignments, scheduleCode, seed>>

\* ------------------------------------------------ the component: inputs
\* A roster of two employees without preference; the first has a name or a
\* blank for a name, the second a name or none and may be a reserve.
UiRosters ==
  {<<a, b>> :
     a \in [name : {<<" ">>, <<"A">>}, preference : {"Neither"},
            desiredShifts : {0, MaxDesired}, isReserve : {FALSE}],
     b \in [name : {<<>>, <<"B">>}, preference : {"Neither"},
            desiredShifts : {MaxDesired}, isReserve : BOOLEAN]}

UiSettings ==
  [dInM : {1, 2},
   firstWeekday : {3},
   daySlots : {1, 2},
   nightSlots : {1},
   enforceNoMorningAfterNight : {TRUE},
   weeklyCap : {DefaultWeeklyCap},
   maxStreak : {DefaultMaxStreak},
   spreadEnabled : {TRUE},
   useReservesAuto : BOOLEAN,
   hardFill : BOOLEAN,
   randomizeSeedEachTime : {FALSE}]

\* The component as mounted: no table yet, no schedule code, no engine run.
InitUI ==
  /\ uiEmployees \in UiRosters
  /\ settings \in UiSettings
  /\ assignments = <<>>
  /\ scheduleCode = 0
  /\ seed = 0
  /\ lastOp = NoOp
  /\ params = [request EXCEPT !.employees = <<>>]
  /\ pc = "idle"
  /\ StartOfRun

NextUI ==
  \/ DoGenerate
  \/ TryPoolDiscard
  \/ TryPoolCommit
  \/ TryReserves
  \/ EndDayShift
  \/ EndNightShift
  \/ FillSlotCommit
  \/ FillSlotBlank
  \/ NextRow
  \/ Return
  \/ DoGenerateEnd
  \/ AssignFromMenu
  \/ AutoFillWithReserve
  \/ RemoveFromShift
  \/ EditName

SpecUI == InitUI /\ [][NextUI]_vars

\* ------------------------------------------------------------- claims
\* The table built so far: the pushed rows and, during the strict pass, the
\* row of the current day.
builtLen == IF pc = "strict" THEN Len(days) + 1 ELSE Len(days)
dayIdsOf(d) ==
  IF d <= Len(days) THEN days[d].dayIds
  ELSE IF shiftName = "day" THEN picks ELSE dayRes.picks
nightIdsOf(d) ==
  IF d <= Len(days) THEN days[d].nightIds
  ELSE IF shiftName = "night" THEN picks ELSE <<>>

NoDup(ids) == \A i, j \in 1..Len(ids) : i # j => ids[i] # ids[j]

AllFilled == \A d \in 1..Len(days) : days[d].dayMissing = 0 /\ days[d].nightMissing = 0

Shortfall == sumDesiredPrimaries < totalDemand

\* C1: the returned table has exactly dInM rows and row i carries the date of
\* calendar day i, so the rows ascend by date with no day missing or repeated.
C1_RowPerDay ==
  pc = "done" => /\ Len(days) = dInM
                 /\ \A i \in 1..Len(days) : days[i].date = i

C1_Witness == pc = "done" /\ Len(days) >= 2

\* C2: in every row of the table (strict pass alone or followed by hard fill),
\* no employee id is on both lists of a date or twice on one list.
C2_OncePerRow ==
  \A d \in 1..builtLen : NoDup(dayIdsOf(d) \o nightIdsOf(d))

C2_Witness ==
  /\ lastCommit.pass = "hardfill"
  /\ Len(days[lastCommit.dayNum].dayIds) + Len(days[lastCommit.dayNum].nightIds) >= 2

\* C3: with enforceNoMorningAfterNight, in the returned table (hard-fill seats
\* included) no employee is on the night list of day d-1 and the day list of d.
C3_NoMorningAfterNightFinal ==
  (pc = "done" /\ params.enforceNoMorningAfterNight) =>
    \A d \in 2..Len(days) : \A e \in Ids :
      ~(Includes(days[d - 1].nightIds, e) /\ Includes(days[d].dayIds, e))

\* C4: with hardFill disabled and enforceNoMorningAfterNight, after every commit
\* of the strict pass nobody on the day list of d is on the night list of d-1,
\* and on day 1 no candidate is rejected for "morning after night".
C4_StrictNoMorningAfterNight ==
  (~params.hardFill /\ params.enforceNoMorningAfterNight) =>
    /\ \A d \in 2..builtLen : \A e \in Ids :
         ~(Includes(nightIdsOf(d - 1), e) /\ Includes(dayIdsOf(d), e))
    /\ (pc = "strict" /\ day = 1 /\ shiftName = "day") =>
         \A c \in Ids : ~morningAfterNight(c, "day", 1)

C4_Witness ==
  /\ ~params.hardFill /\ params.enforceNoMorningAfterNight
  /\ lastCommit.pass = "strict" /\ lastCommit.shift = "day" /\ lastCommit.dayNum >= 2
  /\ \E c \in Range(primaries) : lastNightOn[c] = lastCommit.dayNum - 1

\* C5: whenever the strict pass commits an employee whose assigned count is
\* already at or above the desired count, no employee of the allowed pool is
\* both under the desired count and eligible for that shift at that moment.
C5_HardCeilingAtCommit ==
  (lastCommit.pass = "strict" /\ lastCommit.atTarget) => lastCommit.underEligible = {}

C5_Witness ==
  /\ lastCommit.pass = "strict" /\ lastCommit.atTarget
  /\ \E u \in Range(allAllowed) : u # lastCommit.id /\ assignedCount[u] < desiredOf(u)

C8_ShortfallBlanks ==
  (pc = "done" /\ ~params.hardFill /\ Shortfall) =>
    \E d \in 1..Len(days) : days[d].dayMissing > 0 \/ days[d].nightMissing > 0

\* The roster covers every seat of a day when only no-double-booking and
\* no-morning-after-night are kept.
EnoughRoster ==
  Len(employees) >= daySlotsNeeded + nightSlotsNeeded
     + (IF params.enforceNoMorningAfterNight
        THEN Max(daySlotsNeeded, nightSlotsNeeded) ELSE 0)

\* C9: with hardFill, a shortfall and a roster large enough once weekly cap and
\* streak are ignored, no seat is given up by all three stages and the returned
\* table has no missing seat.
C9_HardFillSaturates ==
  (params.hardFill /\ Shortfall /\ EnoughRoster) =>
    /\ blankCalls = 0
    /\ pc = "done" => AllFilled

\* C10: generateSchedule terminates; a seat whose three hard-fill stages all
\* fail is left blank and not tried again.
C10_BlankSeatLeft == blankCalls <= 1

\* C11: with hardFill disabled and reserves not admitted (useReservesAuto off,
\* or the primaries' desired sum below total demand) no reserve is on any row;
\* the strict pass commits a reserve only when reserves are admitted and only
\* in the reserve call of tryPool, made after the primary call left the shift
\* short of its seats.
C11_ReservesOnlyWhenAdmitted ==
  LET admitted == params.useReservesAuto /\ SumDesired(primaries) >= totalDemand
  IN /\ (~params.hardFill /\ ~admitted) =>
          \A d \in 1..builtLen : \A e \in Range(reserves) :
             ~Includes(dayIdsOf(d) \o nightIdsOf(d), e)
     /\ (lastCommit.pass = "strict" /\ employees[lastCommit.id].isReserve) =>
          /\ admitted
          /\ pool = "reserve"
          /\ Len(picks) <= needed

C11_Witness ==
  /\ lastCommit.pass = "strict"
  /\ employees[lastCommit.id].isReserve
  /\ \E p \in Range(primaries) : assignedCount[p] > 0

\* The rows built so far on which e is on the day or the night list.
rowsWith(e) ==
  Cardinality({d \in 1..builtLen : Includes(dayIdsOf(d) \o nightIdsOf(d), e)})

\* C12: at every point of a run, in the strict pass and in the hard-fill pass,
\* assignedCount[e] is the number of rows built so far that list e, and no step
\* lowers assignedCount[e].
C12_AssignedCountTracksRows ==
  /\ [](\A e \in Ids : assignedCount[e] = rowsWith(e))
  /\ [][\A e \in Ids : assignedCount'[e] >= assignedCount[e]]_vars

C12_Witness ==
  /\ lastCommit.pass = "hardfill"
  /\ assignedCount[lastCommit.id] >= 2
  /\ lastCommit.dayNum < Len(days)

\* The number of consecutive calendar days ending at day d on which e worked.
runEndingAt(e, d) ==
  Cardinality({k \in 1..d : \A j \in k..d : j \in workedOnDay[e]})

\* C13: in the strict pass, for every employee not yet committed on the current
\* day d, streak[e] is the number of consecutive days ending at d-1 on which e
\* worked (0 after a day off), so a day off lifts the streak rejection.
C13_StreakIsCurrentRun ==
  pc = "strict" =>
    \A e \in Ids : day \notin workedOnDay[e] =>
      /\ streak[e] = runEndingAt(e, day - 1)
      /\ runEndingAt(e, day - 1) = 0 => ~streakBlocked(e, NoRelax)

\* The days of first..last on which e is on a list of the table.
daysWorkedIn(e, first, last) ==
  Cardinality({d \in first..Min(last, Len(days)) :
                 Includes(days[d].dayIds \o days[d].nightIds, e)})

\* C14: with hardFill disabled, in the returned table no employee works on more
\* than weeklyCap days of any 7 consecutive calendar days of the month.
C14_WeeklyCapInEveryWindow ==
  (pc = "done" /\ ~params.hardFill) =>
    \A e \in Ids : \A first \in 1..dInM :
      daysWorkedIn(e, first, first + WeekWindow - 1) <= params.weeklyCap

C14_Witness ==
  /\ pc = "done" /\ ~params.hardFill /\ dInM > WeekWindow
  /\ \E e \in Ids :
       /\ daysWorkedIn(e, 1, WeekWindow) = params.weeklyCap
       /\ daysWorkedIn(e, WeekWindow + 1, dInM) > 0

\* C15: in the strict pass with hardFill disabled, whatever value in [0, 1) the
\* draw takes (0 included), no employee preferring Day is committed to a night
\* seat and no employee preferring Night is committed to a day seat.
C15_NoOppositePreference ==
  ~params.hardFill =>
    \A d \in 1..builtLen : \A e \in Ids :
      /\ Includes(dayIdsOf(d), e) => employees[e].preference # "Night"
      /\ Includes(nightIdsOf(d), e) => employees[e].preference # "Day"

\* C18: for the seat hard fill is working on, a candidate whose streak is at
\* maxStreak or above, who is not on the row and not in a morning after a
\* night, is eligible under the relaxation of stage 3 (ignoreWeeklyCap and
\* ignoreStreak): eligibilityReasons has no reason for them.
C18_IgnoreStreakAdmits ==
  hfOpen =>
    LET row == days[hfIdx]
        shift == hfShift(row)
        onRow == row.dayIds \o row.nightIds
    IN \A c \in Ids :
         (/\ streak[c] >= params.maxStreak
          /\ ~Includes(onRow, c)
          /\ ~morningAfterNight(c, shift, hfIdx)) =>
           eligibilityReasons(c, shift, hfIdx, onRow, relaxStages[3]) = {}

\* The day eligibility is evaluated for: the day of the day loop in the strict
\* pass, the row of days.forEach in the hard-fill pass.
evalDay == IF pc = "strict" THEN day ELSE hfIdx
evaluating == (pc = "strict" \/ pc = "hardfill") /\ evalDay <= Len(days) + 1

\* C19 as stated: the weekly-cap check for day d counts the days worked among
\* the seven days d-7..d-1 (clipped to the month); the candidate is rejected for
\* "weekly cap" exactly when that count is >= weeklyCap and ignoreWeeklyCap is off.
C19_WeeklyCapCountsSevenDays ==
  evaluating =>
    \A c \in Ids : \A sh \in {"day", "night"} : \A k \in 1..Len(relaxStages) :
      ("weekly cap" \in eligibilityReasons(c, sh, evalDay, <<>>, relaxStages[k]))
        <=> (/\ ~relaxStages[k].ignoreWeeklyCap
             /\ daysWorkedIn(c, Max(1, evalDay - WeekWindow), evalDay - 1)
                  >= params.weeklyCap)

\* C19 as amended: the check counts the days worked among the six days
\* d-6..d-1 (clipped to the month), the 7-day window ending at d without d.
C19_WeeklyCapCountsSixDays ==
  evaluating =>
    \A c \in Ids : \A sh \in {"day", "night"} : \A k \in 1..Len(relaxStages) :
      ("weekly cap" \in eligibilityReasons(c, sh, evalDay, <<>>, relaxStages[k]))
        <=> (/\ ~relaxStages[k].ignoreWeeklyCap
             /\ daysWorkedIn(c, Max(1, evalDay - (WeekWindow - 1)), evalDay - 1)
                  >= params.weeklyCap)

C19_Witness ==
  /\ evaluating /\ evalDay > WeekWindow
  /\ \E c \in Ids :
       /\ daysWorkedIn(c, evalDay - WeekWindow, evalDay - WeekWindow) = 1
       /\ daysWorkedIn(c, evalDay - (WeekWindow - 1), evalDay - 1) = params.weeklyCap - 1
       /\ eligible(c, "day", evalDay, <<>>, NoRelax)

\* C20: right after a commit of either pass, the committed employee's streak
\* is 1 if it was their first commit, the previous streak + 1 if the committed
\* day is one calendar day after the date of their previous commit, and 1 in
\* every other case (a hard-fill commit on an earlier day included).
C20_StreakUpdateRule ==
  lastCommit.id # 0 =>
    streak[lastCommit.id] =
      IF lastCommit.first THEN 1
      ELSE IF lastCommit.dayNum = lastCommit.prevDay + 1
           THEN lastCommit.prevStreak + 1
           ELSE 1

C20_Witness ==
  /\ lastCommit.pass = "hardfill"
  /\ ~lastCommit.first
  /\ lastCommit.prevDay > lastCommit.dayNum
  /\ lastCommit.prevStreak >= 2
  /\ streak[lastCommit.id] = 1

\* C16: in the component's table, after any sequence of manual assigns, fills
\* and removes on a generated table, no id is on both lists of a row; and an
\* assign (from the menu or by the Fill button) of an employee who is on the
\* other shift of the date leaves the table as it was.
C16_ManualKeepsShiftsApart ==
  /\ [](\A d \in 1..Len(assignments) :
          Range(assignments[d].dayIds) \cap Range(assignments[d].nightIds) = {})
  /\ [][(/\ pc = "idle"
         /\ lastOp'.kind \in {"assignManual", "autoFillWithReserve"}
         /\ hasRow(lastOp'.date)
         /\ Includes(otherOf(cellOf(lastOp'.date), lastOp'.shift), lastOp'.id))
        => assignments' = assignments]_vars

C16_Witness ==
  /\ pc = "idle" /\ scheduleCode > 0
  /\ lastOp.kind = "autoFillWithReserve"
  /\ hasRow(lastOp.date)
  /\ Includes(otherOf(cellOf(lastOp.date), lastOp.shift), lastOp.id)
  /\ missingOf(cellOf(lastOp.date), lastOp.shift) > 0

\* The engine records of the roster lines whose trimmed name is not empty.
hasName(e) == trim(e.name) # <<>>
namedEmployees ==
  LET named == SelectSeq(uiEmployees, hasName)
  IN [k \in 1..Len(named) |-> toEngine(named[k])]

\* C17: a generation request with no named employee does not start the engine
\* and leaves the table, the seed and the schedule code as they were; with a
\* named employee, the engine is started on the named employees only.
C17_GenerateNeedsNamedEmployee ==
  [][(pc = "idle" /\ lastOp'.kind = "doGenerate") =>
       IF namedEmployees = <<>>
       THEN /\ pc' = "idle"
            /\ UNCHANGED <<assignments, seed, scheduleCode, days>>
       ELSE /\ pc' = "strict"
            /\ params'.employees = namedEmployees]_vars

C17_Witness ==
  /\ pc = "idle" /\ lastOp = GenerateOp
  /\ namedEmployees = <<>>
  /\ scheduleCode > 0 /\ assignments # <<>>

\* The members of primaries ++ reserves on neither list of the row who are
\* eligible for the seat under relax.
eligibleOffRow(row, dayNum, shift, relax) ==
  {c \in Ids :
     /\ ~Includes(row.dayIds \o row.nightIds, c)
     /\ eligible(c, shift, dayNum, row.dayIds \o row.nightIds, relax)}

\* The stages fillSlot runs for the seat: up to the first that yields somebody.
stagesRun(row, dayNum, shift) ==
  IF stageUsed(row, dayNum, shift) = 0 THEN 1..Len(relaxStages)
  ELSE 1..stageUsed(row, dayNum, shift)

idsCount(tbl) ==
  LET RECURSIVE upTo(_)
      upTo(n) == IF n = 0 THEN 0
                 ELSE upTo(n - 1) + Len(tbl[n].dayIds) + Len(tbl[n].nightIds)
  IN upTo(Len(tbl))

remainingOf(e) == desiredOf(e) - assignedCount[e]

\* C22: a hard-fill fill attempt adds at most one id to the table; the one it
\* commits is eligible under the stage used, has the largest desired - assigned
\* among the stage's eligible candidates and, among those, the lowest assigned
\* count; the stage used is the first of no relaxation, ignore weekly cap,
\* ignore weekly cap and streak that yields somebody.
C22_HardFillChoice ==
  [][ /\ pc = "hardfill" => idsCount(days') <= idsCount(days) + 1
      /\ (pc = "hardfill" /\ days' # days) =>
           LET row == days[hfIdx]
               shift == hfShift(row)
               k == lastCommit'.stage
               c == lastCommit'.id
               cands == eligibleOffRow(row, hfIdx, shift, relaxStages[k])
           IN /\ k \in 1..Len(relaxStages)
              /\ c \in cands
              /\ \A o \in cands : remainingOf(o) <= remainingOf(c)
              /\ \A o \in cands : remainingOf(o) = remainingOf(c)
                                    => assignedCount[c] <= assignedCount[o]
              /\ \A j \in 1..(k - 1) :
                    stageOrder(row, hfIdx, shift, relaxStages[j]) = <<>>
              /\ relaxStages[k].ignoreStreak => relaxStages[k].ignoreWeeklyCap
              /\ alreadyOf(days'[hfIdx], shift) = Append(alreadyOf(row, shift), c)
              /\ idsCount(days') = idsCount(days) + 1 ]_vars

\* C22 witness: hard fill has just committed the neediest of several candidates.
C22_Witness ==
  /\ lastCommit.pass = "hardfill"
  /\ lastCommit.rivals >= 2

\* C22 witness of the stage order: a commit made by a relaxed stage.
C22_WitnessRelaxed ==
  /\ lastCommit.pass = "hardfill"
  /\ lastCommit.stage >= 2

\* C23: before each draw of the strict pass the "under-target eligible
\* candidate exists" boolean tryPool works with is the one recomputed over the
\* allowed pool at that moment, so that after the last eligible under-target
\* candidate was committed the at-or-over-target candidates can take the
\* remaining seats of the shift.
C23_FlagFreshBeforeEachDraw ==
  (pc = "strict" /\ Len(picks) < needed /\ available # <<>>) =>
     underTargetExistsGlobally
       = underTargetExists(shiftName, day, dayAlreadyPicked)

\* C24: a shift the strict pass left with missing > 0 has a non-empty
\* diagnostics list in its row.
C24_BlankSeatHasReason ==
  \A i \in 1..Len(days) :
     /\ days[i].dayMissing > 0 => days[i].dayIssues # <<>>
     /\ days[i].nightMissing > 0 => days[i].nightIssues # <<>>

\* C25: a candidate of a draw whose remaining desired shifts are <= 2 and
\* whose streak is >= 1 and below maxStreak gets the streak bias 1.3.
C25_FinishTheBlock ==
  (pc = "strict" /\ Len(picks) < needed) =>
    \A e \in Range(available) :
       (/\ Max(0, desiredOf(e) - assignedCount[e]) <= 2
        /\ streak[e] >= 1
        /\ streak[e] < params.maxStreak)
         => consecutiveBias(e) = 13

\* The employee's count in the week of the day the draw is for.
countThisWeek(e) == weekCount[e][dayToWeekIdx(day)]

drawing == pc = "strict" /\ Len(picks) < needed

\* C26 (as stated): with spreading on and desired > 0 the spread bias of an
\* employee, on the tracker of any draw, is 1.2 exactly when
\* count * weeksInMonth < desired, 0.7 exactly when count * weeksInMonth >
\* desired, and 1.0 exactly when they are equal.
C26_SpreadBiasExact ==
  drawing =>
    \A e \in Ids :
       (params.spreadEnabled /\ desiredOf(e) > 0) =>
          LET lhs == countThisWeek(e) * weeksInMonth
          IN /\ spreadBias(e, day) = 12 <=> lhs < desiredOf(e)
             /\ spreadBias(e, day) = 7 <=> lhs > desiredOf(e)
             /\ spreadBias(e, day) = 10 <=> lhs = desiredOf(e)

\* C26 (amended): the bias is 1.2 exactly when the count is below the per-week
\* target rounded down ((count + 1) * weeks <= desired), 0.7 exactly when it is
\* above the target rounded up ((count - 1) * weeks >= desired), and 1.0 for
\* every count between the two roundings.
C26_SpreadBiasRounded ==
  drawing =>
    \A e \in Ids :
       (params.spreadEnabled /\ desiredOf(e) > 0) =>
          LET c == countThisWeek(e)
              wk == Max(1, weeksInMonth)
          IN /\ spreadBias(e, day) = 12 <=> (c + 1) * wk <= desiredOf(e)
             /\ spreadBias(e, day) = 7 <=> (c - 1) * wk >= desiredOf(e)
             /\ spreadBias(e, day) = 10 <=>
                  ((c + 1) * wk > desiredOf(e) /\ (c - 1) * wk < desiredOf(e))

\* C26 witness: a candidate whose count is under a fractional per-week target
\* and whose bias is 1.0.
C26_Witness ==
  /\ drawing
  /\ \E e \in Range(available) :
        /\ params.spreadEnabled /\ desiredOf(e) > 0
        /\ countThisWeek(e) * weeksInMonth < desiredOf(e)
        /\ spreadBias(e, day) = 10

\* C27: in every row of the table, after the strict pass and after every
\* hard-fill fill attempt, ids on the day list + dayMissing = daySlots and ids
\* on the night list + nightMissing = nightSlots; no list holds more ids than
\* its seat count.
C27_SeatsAddUp ==
  \A i \in 1..Len(days) :
     /\ Len(days[i].dayIds) + days[i].dayMissing = params.daySlots
     /\ Len(days[i].nightIds) + days[i].nightMissing = params.nightSlots
     /\ Len(days[i].dayIds) <= params.daySlots
     /\ Len(days[i].nightIds) <= params.nightSlots

\* C27 witness: hard fill has just added an id to a row that now holds at
\* least two ids and still has a blank seat.
C27_Witness ==
  /\ lastCommit.pass = "hardfill"
  /\ LET row == days[lastCommit.dayNum]
     IN /\ row.dayMissing + row.nightMissing > 0
        /\ Len(row.dayIds) + Len(row.nightIds) >= 2

\* The longest run of consecutive days of the table on which e works.
longestRun(e) ==
  LET runs == {runEndingAt(e, d) : d \in 1..Len(days)}
  IN IF runs = {} THEN 0 ELSE CHOOSE m \in runs : \A r \in runs : r <= m

\* C28: after a commit of the hard-fill pass at stage 1 (no relaxation) the
\* committed employee works, in the table as it then stands, on at most
\* weeklyCap days of any 7 consecutive days and on at most maxStreak
\* consecutive days.
C28_StageOneKeepsLimits ==
  (lastCommit.pass = "hardfill" /\ lastCommit.stage = 1) =>
     /\ \A first \in 1..Len(days) :
           daysWorkedIn(lastCommit.id, first, first + WeekWindow - 1)
             <= params.weeklyCap
     /\ longestRun(lastCommit.id) <= params.maxStreak

\* The table the component shows holds no id twice inside one shift list.
listsDupFree(tbl) ==
  \A d \in 1..Len(tbl) : NoDup(tbl[d].dayIds) /\ NoDup(tbl[d].nightIds)

\* The missing counts of the table are the seats not taken by a listed id.
missingMatches(tbl) ==
  \A d \in 1..Len(tbl) :
     /\ tbl[d].dayMissing = Max(0, settings.daySlots - Len(tbl[d].dayIds))
     /\ tbl[d].nightMissing = Max(0, settings.nightSlots - Len(tbl[d].nightIds))

\* C29: on the table of the component, generated and then changed by manual
\* assign and remove operations, each row's missing count for a shift is
\* max(0, seat count - number of ids on that shift's list).
C29_MissingTracksLists ==
  pc = "idle" => missingMatches(assignments)

\* C30: a manual assign or a "Fill with first reserve" on a table whose shift
\* lists hold no id twice leaves a table whose shift lists hold no id twice.
C30_NoIdTwiceInList ==
  [][(/\ pc = "idle"
      /\ lastOp'.kind \in {"assignManual", "autoFillWithReserve"}
      /\ listsDupFree(assignments))
     => listsDupFree(assignments')]_vars

====
